---- MODULE Spec2Model ----
(***************************************************************************)
(* Model of ModelManager.find_matching_selles and of the filename codec    *)
(* _extract_teeth_from_selle_filename (src/src/backend.py).                *)
(*                                                                         *)
(* File names are TLA+ strings; the Python string operations the code uses *)
(* (replace, split, startswith, endswith, in, int) are modelled character  *)
(* by character on them.                                                   *)
(***************************************************************************)
EXTENDS Integers, Sequences, FiniteSets, TLC

VARIABLES
    current_model,      \* self.current_model, by its 'name'
    pc,                 \* position of the find_matching_selles call
    hidden_teeth,       \* argument hidden_teeth (a list of tooth numbers)
    available_selles,   \* local available_selles
    valid_selles,       \* local valid_selles
    exact_matches,      \* local exact_matches
    covered_teeth,      \* local covered_teeth
    result,             \* the list the call returned
    listed,             \* os.listdir(folder) was executed by the current call
    parsed,             \* _extract_teeth_from_selle_filename was executed by the current call
    codec_pc,           \* position of a direct call of the codec
    codec_tokens,       \* tokens the name given to the codec was built from
    codec_name,         \* the file name given to the codec
    codec_out,          \* what the codec produced
    selles_props,       \* self.selles_props, as the set of its values
    undo_stack,         \* self.undo_stack
    redo_stack,         \* self.redo_stack
    dents_present,      \* column 'present' of table dents, by 'fichier'
    entry_model,        \* self.current_model when the call was entered
    other_call,         \* a second find_matching_selles call on the same manager
    missing_teeth       \* local missing_teeth of the export

vars == <<current_model, pc, hidden_teeth, available_selles, valid_selles,
          exact_matches, covered_teeth, result, listed, parsed,
          codec_pc, codec_tokens, codec_name, codec_out,
          selles_props, undo_stack, redo_stack, dents_present,
          entry_model, other_call, missing_teeth>>

resolver_vars == <<current_model, pc, hidden_teeth, available_selles, valid_selles,
                   exact_matches, covered_teeth, result, listed, parsed>>

codec_vars == <<codec_pc, codec_tokens, codec_name, codec_out, missing_teeth>>

manager_vars == <<selles_props, undo_stack, redo_stack, dents_present>>

interleave_vars == <<entry_model, other_call>>

----------------------------------------------------------------------------
(* Bounds of the model *)

\* most snapshots save_state is let to pile on the undo stack
MaxSnapshots == 2

\* longest directory listing os.listdir may return
MaxCatalog == 3

\* most tokens in a name body handed directly to the codec
MaxTokens == 2

----------------------------------------------------------------------------
(* Python string and list primitives *)

ToSet(s) == { s[i] : i \in 1..Len(s) }

CharAt(s, i) == SubSeq(s, i, i)

StartsWith(s, p) == Len(s) >= Len(p) /\ SubSeq(s, 1, Len(p)) = p

EndsWith(s, p) == Len(s) >= Len(p) /\ SubSeq(s, Len(s) - Len(p) + 1, Len(s)) = p

\* sub in s
Contains(s, sub) ==
    \E i \in 1..(Len(s) - Len(sub) + 1) : SubSeq(s, i, i + Len(sub) - 1) = sub

\* s.replace(old, ''), left to right, non-overlapping
RECURSIVE Remove(_, _)
Remove(s, old) ==
    IF Len(s) < Len(old) THEN s
    ELSE IF SubSeq(s, 1, Len(old)) = old
         THEN Remove(SubSeq(s, Len(old) + 1, Len(s)), old)
         ELSE CharAt(s, 1) \o Remove(SubSeq(s, 2, Len(s)), old)

\* s.split(sep) for a one-character sep
RECURSIVE Split(_, _)
Split(s, sep) ==
    IF \E i \in 1..Len(s) : CharAt(s, i) = sep
    THEN LET k == CHOOSE i \in 1..Len(s) :
                      /\ CharAt(s, i) = sep
                      /\ \A j \in 1..(i - 1) : CharAt(s, j) # sep
         IN  <<SubSeq(s, 1, k - 1)>> \o Split(SubSeq(s, k + 1, Len(s)), sep)
    ELSE <<s>>

Digits == {"0", "1", "2", "3", "4", "5", "6", "7", "8", "9"}

DigitVal(c) ==
    CASE c = "0" -> 0 [] c = "1" -> 1 [] c = "2" -> 2 [] c = "3" -> 3
      [] c = "4" -> 4 [] c = "5" -> 5 [] c = "6" -> 6 [] c = "7" -> 7
      [] c = "8" -> 8 [] c = "9" -> 9

\* int(s) raises ValueError unless s is a non-empty run of digits (the names
\* of the model hold no sign, blank or other character int() would accept)
IntOK(s) == Len(s) > 0 /\ \A i \in 1..Len(s) : CharAt(s, i) \in Digits

\* int(s) for a run of digits
RECURSIVE IntOf(_)
IntOf(s) ==
    IF Len(s) = 0 THEN 0
    ELSE 10 * IntOf(SubSeq(s, 1, Len(s) - 1)) + DigitVal(CharAt(s, Len(s)))

RECURSIVE Flatten(_)
Flatten(ss) == IF ss = <<>> THEN <<>> ELSE Head(ss) \o Flatten(Tail(ss))

----------------------------------------------------------------------------
(* _extract_teeth_from_selle_filename *)

\* name_part = filename.replace('selle_', '').replace('.png', '')
NamePart(filename) == Remove(Remove(filename, "selle_"), ".png")

\* list(range(start, end))
RangeExclusive(start, end) ==
    IF end > start THEN [i \in 1..(end - start) |-> start + i - 1] ELSE <<>>

\* the range taken from the smaller to the larger bound
TeethRangeEitherWay(start, end) ==
    IF end >= start THEN [i \in 1..(end + 1 - start) |-> start + i - 1]
    ELSE [i \in 1..(start + 1 - end) |-> end + i - 1]

\* list(range(start, end + 1))
TeethRange(start, end) ==
    IF end + 1 > start THEN [i \in 1..(end + 1 - start) |-> start + i - 1] ELSE <<>>

\* one part of the name: does the loop body raise ValueError on it
PartOK(part) ==
    IF Contains(part, "-")
    THEN LET b == Split(part, "-")
         IN  Len(b) = 2 /\ IntOK(b[1]) /\ IntOK(b[2])
    ELSE IntOK(part)

\* the loop body with a range reduced to its two bounds
PartTeethBoundsOnly(part) ==
    IF Contains(part, "-")
    THEN LET b == Split(part, "-") IN <<IntOf(b[1]), IntOf(b[2])>>
    ELSE <<IntOf(part)>>

\* the teeth the loop body adds for one part
PartTeeth(part) ==
    IF Contains(part, "-")
    THEN LET b == Split(part, "-") IN TeethRange(IntOf(b[1]), IntOf(b[2]))
    ELSE <<IntOf(part)>>

\* ok = FALSE: the call raised ValueError; otherwise teeth is the returned list
ExtractTeeth(filename) ==
    LET parts == Split(NamePart(filename), "_")
        ok    == \A i \in 1..Len(parts) : PartOK(parts[i])
    IN  [ok    |-> ok,
         teeth |-> IF ok THEN Flatten([i \in 1..Len(parts) |-> PartTeeth(parts[i])])
                         ELSE <<>>]

\* set(self._extract_teeth_from_selle_filename(filename))
TeethInFile(filename) == ToSet(ExtractTeeth(filename).teeth)

----------------------------------------------------------------------------
(* ModelManager.models *)

ModelNames == {"arcade_inf", "arcade_sup"}

\* self.models[m]['teeth']
ModelTeeth(m) ==
    IF m = "arcade_sup"
    THEN <<"dent_11.png", "dent_12.png", "dent_13.png", "dent_14.png",
           "dent_15.png", "dent_16.png", "dent_17.png",
           "dent_21.png", "dent_22.png", "dent_23.png", "dent_24.png",
           "dent_25.png", "dent_26.png", "dent_27.png">>
    ELSE <<"dent_31.png", "dent_32.png", "dent_33.png", "dent_34.png",
           "dent_35.png", "dent_36.png", "dent_37.png",
           "dent_41.png", "dent_42.png", "dent_43.png", "dent_44.png",
           "dent_45.png", "dent_46.png", "dent_47.png">>

\* self.models.get(model_name, self.models['arcade_inf'])
ModelGet(model_name) == IF model_name \in ModelNames THEN model_name ELSE "arcade_inf"

----------------------------------------------------------------------------
(* Inputs: directory listings and absent-teeth lists *)

\* files that may lie in selles/selles_sup
SupPool == {"selle_11.png", "selle_12.png", "selle_11-12.png", "selle_11_12.png",
            "selle_12-13.png", "selle_11-17_21.png", "selle_22.png",
            "selle_13-14.png", "selle_11-17_22.png", "selle_21.png"}

\* files that may lie in selles/selles_inf
InfPool == {"selle_31-37_41-45.png", "selle_31-37_41.png", "selle_42-45.png",
            "selle_33-31.png", "selle_.png", "selle_3x.png", "dent_31.png"}

FolderPool(m) == IF m = "arcade_sup" THEN SupPool ELSE InfPool

\* the listings os.listdir may return: distinct names, any order
Listings(m) ==
    UNION { { s \in [1..n -> FolderPool(m)] :
                \A i, j \in 1..n : i # j => s[i] # s[j] } : n \in 0..MaxCatalog }

\* tooth numbers base+1 .. base+k in increasing order
FirstTeeth(base, k) == [i \in 1..k |-> base + i]

\* how many teeth of the first and of the second quadrant are absent
HiddenShapes == {<<0, 0>>, <<1, 0>>, <<2, 0>>, <<3, 0>>, <<4, 0>>,
                 <<7, 1>>, <<7, 2>>, <<7, 5>>, <<7, 7>>}

\* sorted lists of absent teeth, as get_hidden_teeth returns them
HiddenLists(m) ==
    LET q == IF m = "arcade_sup" THEN 10 ELSE 30
    IN  { FirstTeeth(q, sh[1]) \o FirstTeeth(q + 10, sh[2]) : sh \in HiddenShapes }

----------------------------------------------------------------------------
(* The steps of find_matching_selles *)

\* filename.startswith('selle_') and filename.endswith('.png')
IsSelleFile(filename) == StartsWith(filename, "selle_") /\ EndsWith(filename, ".png")

\* Etape 1
AvailableSelles(listing) == SelectSeq(listing, IsSelleFile)

\* hidden_teeth_set = set(hidden_teeth)
HiddenSet(hidden) == ToSet(hidden)

\* the Etape 2 loop raises ValueError at the first name the codec rejects
FilterRaises(available) ==
    \E i \in 1..Len(available) : ~ExtractTeeth(available[i]).ok

\* the filter keeping a file as soon as it covers some absent tooth
PassesFilterOnOverlap(filename, hidden_set) == TeethInFile(filename) \cap hidden_set # {}

\* teeth_in_file <= hidden_teeth_set
PassesFilter(filename, hidden_set) == TeethInFile(filename) \subseteq hidden_set

\* Etape 2
ValidSelles(available, hidden_set) ==
    LET Keep(f) == PassesFilter(f, hidden_set) IN SelectSeq(available, Keep)

\* Etape 3 keeping the last exact match of the list
ExactMatchIndexLast(valid, hidden_set) ==
    IF \E i \in 1..Len(valid) : TeethInFile(valid[i]) = hidden_set
    THEN CHOOSE i \in 1..Len(valid) :
            /\ TeethInFile(valid[i]) = hidden_set
            /\ \A j \in (i + 1)..Len(valid) : TeethInFile(valid[j]) # hidden_set
    ELSE 0

\* Etape 3: index in valid of the first exact match, 0 when there is none
ExactMatchIndex(valid, hidden_set) ==
    IF \E i \in 1..Len(valid) : TeethInFile(valid[i]) = hidden_set
    THEN CHOOSE i \in 1..Len(valid) :
            /\ TeethInFile(valid[i]) = hidden_set
            /\ \A j \in 1..(i - 1) : TeethInFile(valid[j]) # hidden_set
    ELSE 0

\* the inner for loop of Etape 4 keeping the last of the candidates that
\* reach the best new coverage
RECURSIVE BestScanLastOfTies(_, _, _, _, _, _)
BestScanLastOfTies(valid, chosen, covered, i, best, best_new_coverage) ==
    IF i > Len(valid) THEN best
    ELSE IF valid[i] \in ToSet(chosen)
         THEN BestScanLastOfTies(valid, chosen, covered, i + 1, best, best_new_coverage)
         ELSE LET new_coverage == Cardinality(TeethInFile(valid[i]) \ covered)
              IN  IF new_coverage >= best_new_coverage /\ new_coverage > 0
                  THEN BestScanLastOfTies(valid, chosen, covered, i + 1, i, new_coverage)
                  ELSE BestScanLastOfTies(valid, chosen, covered, i + 1, best,
                                          best_new_coverage)

\* the inner for loop of Etape 4 ranking a file by the teeth it covers, the
\* covered ones included
RECURSIVE BestScanBySize(_, _, _, _, _, _)
BestScanBySize(valid, chosen, covered, i, best, best_new_coverage) ==
    IF i > Len(valid) THEN best
    ELSE IF valid[i] \in ToSet(chosen)
         THEN BestScanBySize(valid, chosen, covered, i + 1, best, best_new_coverage)
         ELSE LET new_coverage == Cardinality(TeethInFile(valid[i]))
              IN  IF new_coverage > best_new_coverage
                  THEN BestScanBySize(valid, chosen, covered, i + 1, i, new_coverage)
                  ELSE BestScanBySize(valid, chosen, covered, i + 1, best,
                                      best_new_coverage)

\* the inner for loop of Etape 4 from position i on; best = 0 is None
RECURSIVE BestScan(_, _, _, _, _, _)
BestScan(valid, chosen, covered, i, best, best_new_coverage) ==
    IF i > Len(valid) THEN best
    ELSE IF valid[i] \in ToSet(chosen)
         THEN BestScan(valid, chosen, covered, i + 1, best, best_new_coverage)
         ELSE LET new_coverage == Cardinality(TeethInFile(valid[i]) \ covered)
              IN  IF new_coverage > best_new_coverage
                  THEN BestScan(valid, chosen, covered, i + 1, i, new_coverage)
                  ELSE BestScan(valid, chosen, covered, i + 1, best, best_new_coverage)

\* best_selle of a scan that only accepts a candidate adding 2 teeth or more
BestSelleAtLeastTwo(valid, chosen, covered) == BestScan(valid, chosen, covered, 1, 0, 1)

\* best_selle of a scan that starts below zero and so accepts a candidate
\* adding no tooth
BestSelleFromBelowZero(valid, chosen, covered) == BestScan(valid, chosen, covered, 1, 0, -1)

\* best_selle after the inner loop, as an index in valid (0 is None)
BestSelle(valid, chosen, covered) == BestScan(valid, chosen, covered, 1, 0, 0)

\* the while condition stopping one tooth early
LoopGuardOneShort(covered, hidden) == Cardinality(covered) < Len(hidden) - 1

\* while len(covered_teeth) < len(hidden_teeth)
LoopGuard(covered, hidden) == Cardinality(covered) < Len(hidden)

\* union of the spans of the chosen files (Etape 5, recomputed covered_teeth)
CoveredBy(chosen) == UNION { TeethInFile(chosen[i]) : i \in 1..Len(chosen) }

invalid_patterns == {"11-17_21", "11-17_21-22", "21-27_11", "21-27_11-12"}

\* sella_name = match.replace('selle_', '').replace('.png', '')
SellaName(match) == Remove(Remove(match, "selle_"), ".png")

HasInvalidPattern(chosen) ==
    \E i \in 1..Len(chosen) : \E invalid \in invalid_patterns :
        Contains(SellaName(chosen[i]), invalid)

\* Etape 5 without the final coverage test
FinalValidationNoCoverageTest(chosen, hidden_set, model) ==
    IF chosen = <<>> THEN <<>>
    ELSE IF Len(ModelTeeth(model)) - Cardinality(hidden_set) <= 2 THEN <<>>
    ELSE IF HasInvalidPattern(chosen) THEN <<>>
    ELSE chosen

\* Etape 5 with the final test accepting either of its two conditions
FinalValidationEitherTest(chosen, hidden_set, model) ==
    IF chosen = <<>> THEN <<>>
    ELSE LET covered == CoveredBy(chosen)
             all_covered == covered = hidden_set
             present_teeth_covered == covered \ hidden_set
             present_count == Len(ModelTeeth(model)) - Cardinality(hidden_set)
         IN  IF present_count <= 2 THEN <<>>
             ELSE IF HasInvalidPattern(chosen) THEN <<>>
             ELSE IF all_covered \/ present_teeth_covered = {} THEN chosen
             ELSE <<>>

\* Etape 5: the list returned for the greedy selection
FinalValidation(chosen, hidden_set, model) ==
    IF chosen = <<>> THEN <<>>
    ELSE LET covered == CoveredBy(chosen)
             all_covered == covered = hidden_set
             present_teeth_covered == covered \ hidden_set
             present_count == Len(ModelTeeth(model)) - Cardinality(hidden_set)
         IN  IF present_count <= 2 THEN <<>>
             ELSE IF HasInvalidPattern(chosen) THEN <<>>
             ELSE IF all_covered /\ present_teeth_covered = {} THEN chosen
             ELSE <<>>

\* the while loop of Etape 4 dropping the selection when it leaves by break
RECURSIVE GreedyLoopDroppingOnBreak(_, _, _, _)
GreedyLoopDroppingOnBreak(valid, chosen, covered, hidden) ==
    IF LoopGuard(covered, hidden)
    THEN LET best == BestSelle(valid, chosen, covered)
         IN  IF best # 0
             THEN GreedyLoopDroppingOnBreak(valid, Append(chosen, valid[best]),
                                            covered \cup TeethInFile(valid[best]), hidden)
             ELSE <<>>
    ELSE chosen

\* the while loop of Etape 4 run to its end: the final exact_matches
RECURSIVE GreedyLoop(_, _, _, _)
GreedyLoop(valid, chosen, covered, hidden) ==
    IF LoopGuard(covered, hidden)
    THEN LET best == BestSelle(valid, chosen, covered)
         IN  IF best # 0
             THEN GreedyLoop(valid, Append(chosen, valid[best]),
                             covered \cup TeethInFile(valid[best]), hidden)
             ELSE chosen
    ELSE chosen

\* find_matching_selles as a function of its argument, the directory listing
\* and the current model (the folder existing)
FindMatchingSelles(hidden, listing, model) ==
    IF hidden = <<>> THEN [raised |-> FALSE, result |-> <<>>]
    ELSE LET available  == AvailableSelles(listing)
             hidden_set == HiddenSet(hidden)
         IN  IF FilterRaises(available) THEN [raised |-> TRUE, result |-> <<>>]
             ELSE LET valid == ValidSelles(available, hidden_set)
                      k     == ExactMatchIndex(valid, hidden_set)
                  IN  IF k # 0 THEN [raised |-> FALSE, result |-> <<valid[k]>>]
                      ELSE [raised |-> FALSE,
                            result |-> FinalValidation(GreedyLoop(valid, <<>>, {}, hidden),
                                                       hidden_set, model)]


----------------------------------------------------------------------------
(* Element properties, history and the tooth-presence store *)

\* rows of table dents
DentFiles == {"dent_11.png", "dent_31.png"}

\* ElementProperties(image=filename) with the dataclass defaults
\* (scale is counted in tenths: 10 is the scale 1.0)
ElementProperties(image) ==
    [image |-> image, x |-> 400, y |-> 300, angle |-> 0, scale |-> 10,
     flip_x |-> FALSE, flip_y |-> FALSE, type_element |-> "selle"]

\* filename in self.selles_props
HasProps(props, filename) == \E e \in props : e.image = filename

\* deque(maxlen=50)
maxlen == 50

\* deque.append on a deque of bounded length: a full deque drops its oldest item
DequeAppend(d, item) == IF Len(d) = maxlen THEN Append(Tail(d), item) ELSE Append(d, item)

\* ElementProperties.to_dict: asdict, field by field
ToDict(e) ==
    [image |-> e.image, x |-> e.x, y |-> e.y, angle |-> e.angle, scale |-> e.scale,
     flip_x |-> e.flip_x, flip_y |-> e.flip_y, type_element |-> e.type_element]

\* ElementProperties.from_dict: cls(**data)
FromDict(data) ==
    [image |-> data.image, x |-> data.x, y |-> data.y, angle |-> data.angle,
     scale |-> data.scale, flip_x |-> data.flip_x, flip_y |-> data.flip_y,
     type_element |-> data.type_element]

\* {k: v.to_dict() for k, v in self.selles_props.items()}
Snapshot(props) == { ToDict(e) : e \in props }

\* selles_props cleared and refilled from a snapshot
Restore(state) == { FromDict(d) : d \in state }

\* d[-1] and what d.pop() leaves
Last(d) == d[Len(d)]
Front(d) == SubSeq(d, 1, Len(d) - 1)

\* max(0.3, min(2.0, scale)), in tenths
ClampScale(scale) ==
    LET low == IF scale < 20 THEN scale ELSE 20
    IN  IF low > 3 THEN low ELSE 3

\* selles_props with the entry of filename created if it was missing
WithEntry(props, filename) ==
    IF ~HasProps(props, filename) THEN props \cup {ElementProperties(filename)} ELSE props

\* save_state() that leaves redo_stack as it is
SaveStateResultKeepingRedo(props, undo, redo) ==
    [selles_props |-> props,
     undo_stack |-> DequeAppend(undo, Snapshot(props)),
     redo_stack |-> redo]

\* what save_state() makes of selles_props, undo_stack and redo_stack
SaveStateResult(props, undo, redo) ==
    [selles_props |-> props,
     undo_stack |-> DequeAppend(undo, Snapshot(props)),
     redo_stack |-> <<>>]

\* what undo() returns and makes of selles_props, undo_stack and redo_stack
UndoResult(props, undo, redo) ==
    IF Len(undo) > 1
    THEN [returned |-> TRUE,
          selles_props |-> Restore(Last(Front(undo))),
          undo_stack |-> Front(undo),
          redo_stack |-> DequeAppend(redo, Last(undo))]
    ELSE [returned |-> FALSE, selles_props |-> props,
          undo_stack |-> undo, redo_stack |-> redo]

\* what redo() returns and makes of selles_props, undo_stack and redo_stack
RedoResult(props, undo, redo) ==
    IF redo # <<>>
    THEN [returned |-> TRUE,
          selles_props |-> Restore(Last(redo)),
          undo_stack |-> DequeAppend(undo, Last(redo)),
          redo_stack |-> Front(redo)]
    ELSE [returned |-> FALSE, selles_props |-> props,
          undo_stack |-> undo, redo_stack |-> redo]

----------------------------------------------------------------------------
(* The state machine of one ModelManager *)

Idle == pc \in {"idle", "done", "raised"}

\* the second call before it is made
NoCall == [pc |-> "idle", model |-> "arcade_inf", hidden_teeth |-> <<>>,
           listing |-> <<>>, raised |-> FALSE, result |-> <<>>]

Init ==
    /\ current_model = "arcade_inf"
    /\ pc = "idle"
    /\ hidden_teeth = <<>>
    /\ available_selles = <<>>
    /\ valid_selles = <<>>
    /\ exact_matches = <<>>
    /\ covered_teeth = {}
    /\ result = <<>>
    /\ listed = FALSE
    /\ parsed = FALSE
    /\ codec_pc = "off"
    /\ codec_tokens = <<>>
    /\ codec_name = ""
    /\ codec_out = [ok |-> TRUE, teeth |-> <<>>]
    /\ missing_teeth = <<>>
    /\ selles_props = {}
    /\ undo_stack = <<>>
    /\ redo_stack = <<>>
    /\ dents_present = [f \in DentFiles |-> TRUE]
    /\ entry_model = "arcade_inf"
    /\ other_call = NoCall

\* set_current_model(model_name), between calls of the resolver
SetCurrentModel(model_name) ==
    /\ Idle
    /\ current_model' = ModelGet(model_name)
    /\ selles_props' = {}
    /\ undo_stack' = <<>>
    /\ redo_stack' = <<>>
    /\ UNCHANGED <<pc, hidden_teeth, available_selles, valid_selles, exact_matches,
                   covered_teeth, result, listed, parsed>>
    /\ UNCHANGED codec_vars
    /\ UNCHANGED interleave_vars
    /\ UNCHANGED dents_present

\* the entry of find_matching_selles without the test of line 257
CallNoShortCircuit(hidden) ==
    /\ Idle
    /\ hidden_teeth' = hidden
    /\ available_selles' = <<>>
    /\ valid_selles' = <<>>
    /\ exact_matches' = <<>>
    /\ covered_teeth' = {}
    /\ result' = <<>>
    /\ listed' = FALSE
    /\ parsed' = FALSE
    /\ pc' = "list"
    /\ entry_model' = current_model
    /\ UNCHANGED <<current_model, other_call>>
    /\ UNCHANGED codec_vars
    /\ UNCHANGED manager_vars

\* find_matching_selles(hidden) is entered; if not hidden_teeth: return []
Call(hidden) ==
    /\ Idle
    /\ hidden_teeth' = hidden
    /\ available_selles' = <<>>
    /\ valid_selles' = <<>>
    /\ exact_matches' = <<>>
    /\ covered_teeth' = {}
    /\ result' = <<>>
    /\ listed' = FALSE
    /\ parsed' = FALSE
    /\ pc' = IF hidden = <<>> THEN "done" ELSE "list"
    /\ entry_model' = current_model
    /\ UNCHANGED <<current_model, other_call>>
    /\ UNCHANGED codec_vars
    /\ UNCHANGED manager_vars

\* if not os.path.exists(folder): return []
FolderMissing ==
    /\ pc = "list"
    /\ result' = <<>>
    /\ pc' = "done"
    /\ UNCHANGED <<current_model, hidden_teeth, available_selles, valid_selles,
                   exact_matches, covered_teeth, listed, parsed>>
    /\ UNCHANGED codec_vars
    /\ UNCHANGED interleave_vars
    /\ UNCHANGED manager_vars

\* Etape 1: os.listdir(folder) returns listing
ListFolder(listing) ==
    /\ pc = "list"
    /\ listed' = TRUE
    /\ available_selles' = AvailableSelles(listing)
    /\ pc' = "filter"
    /\ UNCHANGED <<current_model, hidden_teeth, valid_selles, exact_matches,
                   covered_teeth, result, parsed>>
    /\ UNCHANGED codec_vars
    /\ UNCHANGED interleave_vars
    /\ UNCHANGED manager_vars

\* Etape 2: the subset filter; a name the codec rejects ends the call with ValueError
Filter ==
    /\ pc = "filter"
    /\ parsed' = (available_selles # <<>>)
    /\ IF FilterRaises(available_selles)
       THEN /\ pc' = "raised"
            /\ UNCHANGED valid_selles
       ELSE /\ pc' = "exact"
            /\ valid_selles' = ValidSelles(available_selles, HiddenSet(hidden_teeth))
    /\ UNCHANGED <<current_model, hidden_teeth, available_selles, exact_matches,
                   covered_teeth, result, listed>>
    /\ UNCHANGED codec_vars
    /\ UNCHANGED interleave_vars
    /\ UNCHANGED manager_vars

\* Etape 3: return [filename] for the first exact match
ExactMatch ==
    /\ pc = "exact"
    /\ LET k == ExactMatchIndex(valid_selles, HiddenSet(hidden_teeth))
       IN  IF k # 0
           THEN /\ result' = <<valid_selles[k]>>
                /\ pc' = "done"
           ELSE /\ pc' = "greedy"
                /\ UNCHANGED result
    /\ UNCHANGED <<current_model, hidden_teeth, available_selles, valid_selles,
                   exact_matches, covered_teeth, listed, parsed>>
    /\ UNCHANGED codec_vars
    /\ UNCHANGED interleave_vars
    /\ UNCHANGED manager_vars

\* Etape 4 with an if in the place of the while: one selection at most
GreedyIterationOnce ==
    /\ pc = "greedy"
    /\ IF LoopGuard(covered_teeth, hidden_teeth)
       THEN LET best == BestSelle(valid_selles, exact_matches, covered_teeth)
            IN  IF best # 0
                THEN /\ exact_matches' = Append(exact_matches, valid_selles[best])
                     /\ covered_teeth' = covered_teeth \cup TeethInFile(valid_selles[best])
                     /\ pc' = "validate"
                ELSE /\ pc' = "validate"
                     /\ UNCHANGED <<exact_matches, covered_teeth>>
       ELSE /\ pc' = "validate"
            /\ UNCHANGED <<exact_matches, covered_teeth>>
    /\ UNCHANGED <<current_model, hidden_teeth, available_selles, valid_selles,
                   result, listed, parsed>>
    /\ UNCHANGED codec_vars
    /\ UNCHANGED interleave_vars
    /\ UNCHANGED manager_vars

\* Etape 4: one evaluation of the while condition and one turn of its body
GreedyIteration ==
    /\ pc = "greedy"
    /\ IF LoopGuard(covered_teeth, hidden_teeth)
       THEN LET best == BestSelle(valid_selles, exact_matches, covered_teeth)
            IN  IF best # 0
                THEN /\ exact_matches' = Append(exact_matches, valid_selles[best])
                     /\ covered_teeth' = covered_teeth \cup TeethInFile(valid_selles[best])
                     /\ pc' = "greedy"
                ELSE /\ pc' = "validate"
                     /\ UNCHANGED <<exact_matches, covered_teeth>>
       ELSE /\ pc' = "validate"
            /\ UNCHANGED <<exact_matches, covered_teeth>>
    /\ UNCHANGED <<current_model, hidden_teeth, available_selles, valid_selles,
                   result, listed, parsed>>
    /\ UNCHANGED codec_vars
    /\ UNCHANGED interleave_vars
    /\ UNCHANGED manager_vars

\* Etape 5 followed by a reset of the element properties
ValidateClearingProps ==
    /\ pc = "validate"
    /\ result' = FinalValidation(exact_matches, HiddenSet(hidden_teeth), current_model)
    /\ covered_teeth' = IF exact_matches # <<>> THEN CoveredBy(exact_matches)
                                               ELSE covered_teeth
    /\ pc' = "done"
    /\ selles_props' = {}
    /\ UNCHANGED <<current_model, hidden_teeth, available_selles, valid_selles,
                   exact_matches, listed, parsed>>
    /\ UNCHANGED codec_vars
    /\ UNCHANGED interleave_vars
    /\ UNCHANGED <<undo_stack, redo_stack, dents_present>>

\* Etape 5: the final validation decides what is returned
Validate ==
    /\ pc = "validate"
    /\ result' = FinalValidation(exact_matches, HiddenSet(hidden_teeth), current_model)
    /\ covered_teeth' = IF exact_matches # <<>> THEN CoveredBy(exact_matches)
                                               ELSE covered_teeth
    /\ pc' = "done"
    /\ UNCHANGED <<current_model, hidden_teeth, available_selles, valid_selles,
                   exact_matches, listed, parsed>>
    /\ UNCHANGED codec_vars
    /\ UNCHANGED interleave_vars
    /\ UNCHANGED manager_vars

\* update_selle_position(filename, x, y), between calls of the resolver
UpdateSellePosition(filename, x, y) ==
    /\ Idle
    /\ selles_props' =
          IF ~HasProps(selles_props, filename)
          THEN selles_props \cup {ElementProperties(filename)}
          ELSE { IF e.image = filename THEN [e EXCEPT !.x = x, !.y = y] ELSE e :
                   e \in selles_props }
    /\ UNCHANGED <<undo_stack, redo_stack, dents_present>>
    /\ UNCHANGED resolver_vars
    /\ UNCHANGED codec_vars
    /\ UNCHANGED interleave_vars

\* update_selle_angle(filename, angle)
UpdateSelleAngle(filename, angle) ==
    /\ Idle
    /\ selles_props' = { IF e.image = filename THEN [e EXCEPT !.angle = angle] ELSE e :
                           e \in WithEntry(selles_props, filename) }
    /\ UNCHANGED <<undo_stack, redo_stack, dents_present>>
    /\ UNCHANGED resolver_vars
    /\ UNCHANGED codec_vars
    /\ UNCHANGED interleave_vars

\* update_selle_scale(filename, scale)
UpdateSelleScale(filename, scale) ==
    /\ Idle
    /\ selles_props' = { IF e.image = filename THEN [e EXCEPT !.scale = ClampScale(scale)]
                                                ELSE e :
                           e \in WithEntry(selles_props, filename) }
    /\ UNCHANGED <<undo_stack, redo_stack, dents_present>>
    /\ UNCHANGED resolver_vars
    /\ UNCHANGED codec_vars
    /\ UNCHANGED interleave_vars

\* flip_selle_x(filename)
FlipSelleX(filename) ==
    /\ Idle
    /\ selles_props' = { IF e.image = filename THEN [e EXCEPT !.flip_x = ~e.flip_x] ELSE e :
                           e \in WithEntry(selles_props, filename) }
    /\ UNCHANGED <<undo_stack, redo_stack, dents_present>>
    /\ UNCHANGED resolver_vars
    /\ UNCHANGED codec_vars
    /\ UNCHANGED interleave_vars

\* flip_selle_y(filename)
FlipSelleY(filename) ==
    /\ Idle
    /\ selles_props' = { IF e.image = filename THEN [e EXCEPT !.flip_y = ~e.flip_y] ELSE e :
                           e \in WithEntry(selles_props, filename) }
    /\ UNCHANGED <<undo_stack, redo_stack, dents_present>>
    /\ UNCHANGED resolver_vars
    /\ UNCHANGED codec_vars
    /\ UNCHANGED interleave_vars

\* save_state(), however long the history is
SaveStateAnyDepth ==
    /\ Idle
    /\ LET r == SaveStateResult(selles_props, undo_stack, redo_stack)
       IN  /\ undo_stack' = r.undo_stack
           /\ redo_stack' = r.redo_stack
    /\ UNCHANGED <<selles_props, dents_present>>
    /\ UNCHANGED resolver_vars
    /\ UNCHANGED codec_vars
    /\ UNCHANGED interleave_vars

\* save_state() while the history is short
SaveState ==
    /\ Len(undo_stack) < MaxSnapshots
    /\ SaveStateAnyDepth

\* undo(): at least one state is kept
Undo ==
    /\ Idle
    /\ LET r == UndoResult(selles_props, undo_stack, redo_stack)
       IN  /\ selles_props' = r.selles_props
           /\ undo_stack' = r.undo_stack
           /\ redo_stack' = r.redo_stack
    /\ UNCHANGED dents_present
    /\ UNCHANGED resolver_vars
    /\ UNCHANGED codec_vars
    /\ UNCHANGED interleave_vars

\* redo()
Redo ==
    /\ Idle
    /\ LET r == RedoResult(selles_props, undo_stack, redo_stack)
       IN  /\ selles_props' = r.selles_props
           /\ undo_stack' = r.undo_stack
           /\ redo_stack' = r.redo_stack
    /\ UNCHANGED dents_present
    /\ UNCHANGED resolver_vars
    /\ UNCHANGED codec_vars
    /\ UNCHANGED interleave_vars

\* set_tooth_present(filename, present): UPDATE dents SET present WHERE fichier
SetToothPresent(filename, present) ==
    /\ Idle
    /\ dents_present' = [f \in DOMAIN dents_present |->
                            IF f = filename THEN present ELSE dents_present[f]]
    /\ UNCHANGED <<selles_props, undo_stack, redo_stack>>
    /\ UNCHANGED resolver_vars
    /\ UNCHANGED codec_vars
    /\ UNCHANGED interleave_vars

Next ==
    \/ \E m \in ModelNames \cup {"arcade_autre"} : SetCurrentModel(m)
    \/ \E h \in HiddenLists(current_model) : Call(h)
    \/ FolderMissing
    \/ (pc = "list" /\ \E l \in Listings(current_model) : ListFolder(l))
    \/ Filter
    \/ ExactMatch
    \/ GreedyIteration
    \/ Validate

Spec == Init /\ [][Next]_vars

\* the folder is listed and the call has not ended
InCall == pc \in {"filter", "exact", "greedy", "validate"}

\* a step of the call in progress once the folder is listed
CallStep ==
    \/ Filter
    \/ ExactMatch
    \/ GreedyIteration
    \/ Validate

\* the folders hold the files of overlapping and of reversed ranges
RangeFolder(m) == IF m = "arcade_sup"
                  THEN {"selle_11.png", "selle_11-12.png", "selle_11_12.png",
                        "selle_12-13.png", "selle_13-14.png", "selle_13-11.png"}
                  ELSE {"selle_31-37_41.png", "selle_42-45.png", "selle_33-31.png"}

\* the listings of these folders: distinct names, any order
RangeListings(m) ==
    UNION { { l \in [1..n -> RangeFolder(m)] :
                \A i, j \in 1..n : i # j => l[i] # l[j] } : n \in 0..MaxCatalog }

NextCalls ==
    \/ \E m \in ModelNames : SetCurrentModel(m)
    \/ \E h \in HiddenLists(current_model) : Call(h)
    \/ FolderMissing
    \/ (pc = "list" /\ \E l \in RangeListings(current_model) : ListFolder(l))
    \/ Filter
    \/ ExactMatch
    \/ GreedyIteration
    \/ Validate

SpecCalls == Init /\ [][NextCalls]_vars

\* find_matching_selles is synchronous: once past os.listdir the call does
\* not halt between two statements, it goes on taking steps until it is over.
\* (One of the four steps is possible in every state of InCall, so this is
\* weak fairness of CallStep, written without ENABLED.)
SpecFair == SpecCalls /\ ([]<>~InCall \/ []<><<CallStep>>_vars)

----------------------------------------------------------------------------
(* The resolver among the other operations of the manager *)

\* file names and positions given to update_selle_position
PlacedSelles == {"selle_11-12.png"}
Positions == {<<120, 80>>}

\* names set_tooth_present is called with
ToggledDents == {"dent_11.png", "dent_99.png"}

\* the folders hold a few files only
SmallFolder(m) == IF m = "arcade_sup"
                  THEN {"selle_11-12.png", "selle_12-13.png"}
                  ELSE {"selle_31-37_41-45.png", "selle_3x.png"}

SmallListings(m) == { l \in Listings(m) : ToSet(l) \subseteq SmallFolder(m) }

\* absent lists of at most 3 teeth, and the whole first quadrant with 5 of the second
FewHidden(m) == { h \in HiddenLists(m) : Len(h) <= 3 \/ Len(h) = 12 }

NextManager ==
    \/ \E m \in ModelNames : SetCurrentModel(m)
    \/ \E h \in FewHidden(current_model) : Call(h)
    \/ FolderMissing
    \/ (pc = "list" /\ \E l \in SmallListings(current_model) : ListFolder(l))
    \/ Filter
    \/ ExactMatch
    \/ GreedyIteration
    \/ Validate
    \/ \E f \in PlacedSelles, p \in Positions : UpdateSellePosition(f, p[1], p[2])
    \/ SaveState
    \/ Undo
    \/ Redo
    \/ \E f \in ToggledDents, b \in BOOLEAN : SetToothPresent(f, b)

SpecManager == Init /\ [][NextManager]_vars

----------------------------------------------------------------------------
(* The element properties edited, saved, undone and redone *)

Angles == {90}
Scales == {25}

NextEdits ==
    \/ \E f \in PlacedSelles, p \in Positions : UpdateSellePosition(f, p[1], p[2])
    \/ \E f \in PlacedSelles, a \in Angles : UpdateSelleAngle(f, a)
    \/ \E f \in PlacedSelles, s \in Scales : UpdateSelleScale(f, s)
    \/ \E f \in PlacedSelles : FlipSelleX(f)
    \/ \E f \in PlacedSelles : FlipSelleY(f)
    \/ SaveState
    \/ Undo
    \/ Redo

SpecEdits == Init /\ [][NextEdits]_vars

----------------------------------------------------------------------------
(* The history alone: save_state, undo and redo without set_current_model, *)
(* up to the length the deques allow                                       *)

\* the element properties the history starts from
HistoryProps ==
    { {},
      {ElementProperties("selle_11-12.png")},
      {[ElementProperties("selle_11-12.png") EXCEPT !.x = 120, !.y = 80]} }

InitHistory ==
    /\ current_model = "arcade_inf"
    /\ pc = "idle"
    /\ hidden_teeth = <<>>
    /\ available_selles = <<>>
    /\ valid_selles = <<>>
    /\ exact_matches = <<>>
    /\ covered_teeth = {}
    /\ result = <<>>
    /\ listed = FALSE
    /\ parsed = FALSE
    /\ codec_pc = "off"
    /\ codec_tokens = <<>>
    /\ codec_name = ""
    /\ codec_out = [ok |-> TRUE, teeth |-> <<>>]
    /\ missing_teeth = <<>>
    /\ selles_props \in HistoryProps
    /\ undo_stack = <<>>
    /\ redo_stack = <<>>
    /\ dents_present = [f \in DentFiles |-> TRUE]
    /\ entry_model = "arcade_inf"
    /\ other_call = NoCall

NextHistory == SaveStateAnyDepth \/ Undo \/ Redo

SpecHistory == InitHistory /\ [][NextHistory]_vars

----------------------------------------------------------------------------
(* Calls of the resolver interleaved with set_current_model and with a      *)
(* second call, on a disk that does not change                              *)

\* what os.listdir returns for the folder of each model
FolderContents(m) == IF m = "arcade_sup"
                     THEN <<"selle_11-12.png", "selle_12-13.png">>
                     ELSE <<"selle_31-37_41.png", "selle_42-45.png">>

\* set_current_model(model_name) run by another thread while a call is in
\* progress
InterleavedSetCurrentModel(model_name) ==
    /\ ~Idle
    /\ current_model' = ModelGet(model_name)
    /\ selles_props' = {}
    /\ undo_stack' = <<>>
    /\ redo_stack' = <<>>
    /\ UNCHANGED <<pc, hidden_teeth, available_selles, valid_selles, exact_matches,
                   covered_teeth, result, listed, parsed>>
    /\ UNCHANGED codec_vars
    /\ UNCHANGED dents_present
    /\ UNCHANGED interleave_vars

\* the second call is entered; if not hidden_teeth: return []
OtherCall(hidden) ==
    /\ other_call.pc \in {"idle", "done"}
    /\ other_call' = [pc |-> IF hidden = <<>> THEN "done" ELSE "list",
                      model |-> current_model, hidden_teeth |-> hidden,
                      listing |-> <<>>, raised |-> FALSE, result |-> <<>>]
    /\ UNCHANGED resolver_vars
    /\ UNCHANGED codec_vars
    /\ UNCHANGED manager_vars
    /\ UNCHANGED entry_model

\* the second call reads self.current_model['folder'] and lists the folder
OtherListFolder ==
    /\ other_call.pc = "list"
    /\ other_call' = [other_call EXCEPT !.pc = "run",
                                        !.listing = FolderContents(current_model)]
    /\ UNCHANGED resolver_vars
    /\ UNCHANGED codec_vars
    /\ UNCHANGED manager_vars
    /\ UNCHANGED entry_model

\* the second call runs Etapes 2 to 5, reads self.current_model['teeth'] and
\* returns or raises
OtherReturn ==
    /\ other_call.pc = "run"
    /\ LET out == FindMatchingSelles(other_call.hidden_teeth, other_call.listing,
                                     current_model)
       IN  other_call' = [other_call EXCEPT !.pc = "done", !.raised = out.raised,
                                            !.result = out.result]
    /\ UNCHANGED resolver_vars
    /\ UNCHANGED codec_vars
    /\ UNCHANGED manager_vars
    /\ UNCHANGED entry_model

NextInterleaved ==
    \/ \E m \in ModelNames : SetCurrentModel(m)
    \/ \E m \in ModelNames : InterleavedSetCurrentModel(m)
    \/ \E h \in FewHidden(current_model) : Call(h)
    \/ (pc = "list" /\ ListFolder(FolderContents(current_model)))
    \/ Filter
    \/ ExactMatch
    \/ GreedyIteration
    \/ Validate
    \/ \E h \in FewHidden(current_model) : OtherCall(h)
    \/ OtherListFolder
    \/ OtherReturn

SpecInterleaved == Init /\ [][NextInterleaved]_vars

----------------------------------------------------------------------------
(* Direct calls of the codec on names built from tokens *)

\* numbers the tokens are written with
CodecNums == {36, 38, 45, 48}

\* a token is <<n>> (a bare integer) or <<a, b>> (the range 'a-b')
CodecTokens == { <<n>> : n \in CodecNums } \cup (CodecNums \X CodecNums)

CodecTokenLists == UNION { [1..n -> CodecTokens] : n \in 0..MaxTokens }

DigitChar(d) ==
    CASE d = 0 -> "0" [] d = 1 -> "1" [] d = 2 -> "2" [] d = 3 -> "3"
      [] d = 4 -> "4" [] d = 5 -> "5" [] d = 6 -> "6" [] d = 7 -> "7"
      [] d = 8 -> "8" [] d = 9 -> "9"

\* decimal notation of a natural number
RECURSIVE Decimal(_)
Decimal(n) == IF n < 10 THEN DigitChar(n) ELSE Decimal(n \div 10) \o DigitChar(n % 10)

TokenText(t) ==
    IF Len(t) = 1 THEN Decimal(t[1]) ELSE Decimal(t[1]) \o "-" \o Decimal(t[2])

\* the tokens joined by '_'
RECURSIVE JoinTokens(_)
JoinTokens(ts) ==
    IF ts = <<>> THEN ""
    ELSE IF Len(ts) = 1 THEN TokenText(ts[1])
    ELSE TokenText(ts[1]) \o "_" \o JoinTokens(Tail(ts))

\* the teeth a token stands for
TokenSpan(t) == IF Len(t) = 1 THEN {t[1]} ELSE t[1]..t[2]

TokensSpan(ts) == UNION { TokenSpan(ts[i]) : i \in 1..Len(ts) }

InitCodec ==
    /\ current_model = "arcade_inf"
    /\ pc = "idle"
    /\ hidden_teeth = <<>>
    /\ available_selles = <<>>
    /\ valid_selles = <<>>
    /\ exact_matches = <<>>
    /\ covered_teeth = {}
    /\ result = <<>>
    /\ listed = FALSE
    /\ parsed = FALSE
    /\ codec_pc = "ready"
    /\ codec_tokens \in CodecTokenLists
    /\ codec_name = "selle_" \o JoinTokens(codec_tokens) \o ".png"
    /\ codec_out = [ok |-> TRUE, teeth |-> <<>>]
    /\ missing_teeth = <<>>
    /\ selles_props = {}
    /\ undo_stack = <<>>
    /\ redo_stack = <<>>
    /\ dents_present = [f \in DentFiles |-> TRUE]
    /\ entry_model = "arcade_inf"
    /\ other_call = NoCall

\* _extract_teeth_from_selle_filename(codec_name) returns or raises ValueError
CodecCall ==
    /\ codec_pc = "ready"
    /\ codec_out' = ExtractTeeth(codec_name)
    /\ codec_pc' = IF ExtractTeeth(codec_name).ok THEN "returned" ELSE "raised"
    /\ UNCHANGED <<codec_tokens, codec_name, missing_teeth>>
    /\ UNCHANGED resolver_vars
    /\ UNCHANGED interleave_vars
    /\ UNCHANGED manager_vars

NextCodec == CodecCall

SpecCodec == InitCodec /\ [][NextCodec]_vars

(***************************************************************************)
(* The export name: the missing teeth written as ranges, read back by the  *)
(* codec                                                                   *)
(***************************************************************************)

\* int(f.split('_')[1].split('.')[0]) of a tooth file
ToothNumber(f) == IntOf(Split(Split(f, "_")[2], ".")[1])

\* sorted(...) of a set of numbers
RECURSIVE Sorted(_)
Sorted(S) ==
    IF S = {} THEN <<>>
    ELSE LET least == CHOOSE n \in S : \A k \in S : n <= k
         IN <<least>> \o Sorted(S \ {least})

\* the values missing_teeth can take: all_teeth - present_teeth, sorted
MissingLists(m) ==
    { Sorted({ ToothNumber(f) : f \in absent }) : absent \in SUBSET ToSet(ModelTeeth(m)) }

\* the run start..prev as the export writes it
RangeText(start, prev) ==
    IF start = prev THEN Decimal(start) ELSE Decimal(start) \o "-" \o Decimal(prev)

\* the loop with `start = current` left out
RECURSIVE RangesKeepingStart(_, _, _)
RangesKeepingStart(rest, start, prev) ==
    IF rest = <<>>
    THEN <<RangeText(start, prev)>>
    ELSE LET current == Head(rest)
         IN IF current # prev + 1
            THEN <<RangeText(start, prev)>> \o RangesKeepingStart(Tail(rest), start, current)
            ELSE RangesKeepingStart(Tail(rest), start, current)

\* for current in missing_teeth[1:] + [None]: rest is what is left of
\* missing_teeth[1:], and rest = <<>> is the turn of None, which differs from
\* prev + 1
RECURSIVE Ranges(_, _, _)
Ranges(rest, start, prev) ==
    IF rest = <<>>
    THEN <<RangeText(start, prev)>>
    ELSE LET current == Head(rest)
         IN IF current # prev + 1
            THEN <<RangeText(start, prev)>> \o Ranges(Tail(rest), current, current)
            ELSE Ranges(Tail(rest), start, current)

\* "_".join(ranges)
RECURSIVE JoinRanges(_)
JoinRanges(ranges) ==
    IF ranges = <<>> THEN ""
    ELSE IF Len(ranges) = 1 THEN ranges[1]
    ELSE ranges[1] \o "_" \o JoinRanges(Tail(ranges))

\* missing_str
MissingStr(missing) ==
    IF missing = <<>> THEN ""
    ELSE LET ranges == Ranges(Tail(missing), missing[1], missing[1])
         IN IF ranges # <<>> THEN "_" \o JoinRanges(ranges) ELSE ""

InitExport ==
    /\ current_model \in ModelNames
    /\ pc = "idle"
    /\ hidden_teeth = <<>>
    /\ available_selles = <<>>
    /\ valid_selles = <<>>
    /\ exact_matches = <<>>
    /\ covered_teeth = {}
    /\ result = <<>>
    /\ listed = FALSE
    /\ parsed = FALSE
    /\ codec_pc = "export"
    /\ codec_tokens = <<>>
    /\ codec_name = ""
    /\ codec_out = [ok |-> TRUE, teeth |-> <<>>]
    /\ missing_teeth \in MissingLists(current_model)
    /\ selles_props = {}
    /\ undo_stack = <<>>
    /\ redo_stack = <<>>
    /\ dents_present = [f \in DentFiles |-> TRUE]
    /\ entry_model = current_model
    /\ other_call = NoCall

\* the export builds missing_str; the selle file of that name is then named
\* 'selle' + missing_str + '.png'
ExportName ==
    /\ codec_pc = "export"
    /\ missing_teeth # <<>>
    /\ codec_name' = "selle" \o MissingStr(missing_teeth) \o ".png"
    /\ codec_pc' = "ready"
    /\ UNCHANGED <<codec_tokens, codec_out, missing_teeth>>
    /\ UNCHANGED resolver_vars
    /\ UNCHANGED interleave_vars
    /\ UNCHANGED manager_vars

NextExport == ExportName \/ CodecCall

SpecExport == InitExport /\ [][NextExport]_vars

----------------------------------------------------------------------------
(* Properties *)

\* the absent set A of the current call
AbsentSet == ToSet(hidden_teeth)

\* the call returned a list (it did not raise)
Returned == pc = "done"

\* the span each catalog name of the model denotes under the naming
\* convention (tokens joined by '_', a token a tooth or an inclusive range)
NameSpan(name) ==
    CASE name = "selle_11.png" -> {11}
      [] name = "selle_12.png" -> {12}
      [] name = "selle_11-12.png" -> {11, 12}
      [] name = "selle_11_12.png" -> {11, 12}
      [] name = "selle_12-13.png" -> {12, 13}
      [] name = "selle_11-17_21.png" -> (11..17) \cup {21}
      [] name = "selle_22.png" -> {22}
      [] name = "selle_13-14.png" -> {13, 14}
      [] name = "selle_11-17_22.png" -> (11..17) \cup {22}
      [] name = "selle_21.png" -> {21}
      [] name = "selle_31-37_41-45.png" -> (31..37) \cup (41..45)
      [] name = "selle_31-37_41.png" -> (31..37) \cup {41}
      [] name = "selle_42-45.png" -> 42..45
      [] OTHER -> {}

SpanUnion(names) == UNION { NameSpan(names[i]) : i \in 1..Len(names) }

\* teeth of the roster of the current model that are not absent
PresentCount == Len(ModelTeeth(current_model)) - Cardinality(AbsentSet)

\* C1: no element of a returned list covers a tooth that is not absent: the
\* span its name denotes, and the span the codec parses from it, lie within
\* the absent set.
C1_ReturnedSpansWithinAbsent ==
    Returned => \A i \in 1..Len(result) :
                    /\ NameSpan(result[i]) \subseteq AbsentSet
                    /\ TeethInFile(result[i]) \subseteq AbsentSet

\* a two-element cover was returned from a catalog that also held a file
\* covering a present tooth
C1_Witness ==
    /\ Returned
    /\ Len(result) = 2
    /\ \E i \in 1..Len(available_selles) :
          ~(NameSpan(available_selles[i]) \subseteq AbsentSet)

\* C2: a returned list is empty or its spans' union is exactly the absent
\* set; a partial cover is never returned.
C2_EmptyOrExactUnion ==
    Returned => \/ result = <<>>
                \/ SpanUnion(result) = AbsentSet /\ CoveredBy(result) = AbsentSet

\* the greedy loop ended on a partial cover that only the coverage test of
\* the final validation rejected
C2_Witness ==
    /\ Returned
    /\ exact_matches # <<>>
    /\ SpanUnion(exact_matches) # AbsentSet
    /\ PresentCount > 2
    /\ ~HasInvalidPattern(exact_matches)
    /\ result = <<>>

\* a selle file of the listing whose span is exactly the absent set
HasExactEntry ==
    \E i \in 1..Len(available_selles) : NameSpan(available_selles[i]) = AbsentSet

\* the call is over, by a return or by an exception, after listing the folder
Finished == pc \in {"done", "raised"} /\ listed

\* C3: when a catalog entry spans exactly the non-empty absent set, the call
\* returns a singleton holding such an entry.
C3_ExactMatchReturned ==
    (Finished /\ AbsentSet # {} /\ HasExactEntry)
        => /\ Returned
           /\ Len(result) = 1
           /\ NameSpan(result[1]) = AbsentSet

\* C4: when 2 or fewer roster teeth remain present the call returns the
\* empty list, whatever the catalog.
C4_MinimumSupportRejects ==
    (Returned /\ PresentCount <= 2) => result = <<>>

\* C5: when an element chosen for the result has a base name containing a
\* denylisted substring, the call returns the empty list.
C5_ForbiddenPatternRejects ==
    (Returned /\ (HasInvalidPattern(exact_matches) \/ HasInvalidPattern(result)))
        => result = <<>>

\* sets of positions of the listing whose spans are pairwise disjoint and
\* together exactly the absent set
DisjointPartitions ==
    { P \in SUBSET (1..Len(available_selles)) :
        /\ \A i, j \in P :
              i # j => NameSpan(available_selles[i]) \cap NameSpan(available_selles[j]) = {}
        /\ UNION { NameSpan(available_selles[i]) : i \in P } = AbsentSet }

\* C6 as stated, read in its most favourable sense (the rejections of the
\* minimum-support and forbidden-pattern rules set aside): when the absent
\* set can be partitioned into pairwise disjoint catalog spans, the returned
\* list is such a partition, in any order.
C6_ReturnsThePartition ==
    (/\ Returned /\ listed /\ AbsentSet # {}
     /\ DisjointPartitions # {}
     /\ PresentCount > 2
     /\ ~HasInvalidPattern(available_selles))
        => \E P \in DisjointPartitions :
              /\ ToSet(result) = { available_selles[i] : i \in P }
              /\ Len(result) = Cardinality(P)

\* C6 amended: when the absent set can be partitioned into pairwise disjoint
\* catalog spans, more than 2 roster teeth remain present and no catalog
\* name holds a denylisted substring, the returned list is a non-empty list
\* of catalog entries whose spans' union is exactly the absent set.
C6_PartitionIsCovered ==
    (/\ Returned /\ listed /\ AbsentSet # {}
     /\ DisjointPartitions # {}
     /\ PresentCount > 2
     /\ ~HasInvalidPattern(available_selles))
        => /\ result # <<>>
           /\ SpanUnion(result) = AbsentSet
           /\ ToSet(result) \subseteq ToSet(available_selles)

\* a disjoint partition was in the catalog and the list returned covers the
\* absent set with overlapping spans instead
C6_Witness ==
    /\ Returned /\ listed
    /\ DisjointPartitions # {}
    /\ PresentCount > 2
    /\ SpanUnion(result) = AbsentSet
    /\ \E i, j \in 1..Len(result) :
          i # j /\ NameSpan(result[i]) \cap NameSpan(result[j]) # {}

\* C7: a call with an empty absent list returns the empty list at once: the
\* folder is not listed and no name is parsed.
C7_EmptyInputShortCircuit ==
    (hidden_teeth = <<>> /\ pc # "idle")
        => (pc = "done" /\ result = <<>> /\ ~listed /\ ~parsed)

\* a call with an empty list has returned, on the upper arch
C7_Witness ==
    /\ pc = "done"
    /\ hidden_teeth = <<>>
    /\ current_model = "arcade_sup"
    /\ result = <<>>
    /\ ~listed

\* the selle files of the listing the codec accepts
ParseableSelles == LET Ok(f) == ExtractTeeth(f).ok IN SelectSeq(available_selles, Ok)

\* C8: with a malformed name in the catalog the call does not raise and
\* returns what it returns for the catalog without the malformed names.
C8_MalformedEntriesSkipped ==
    (Finished /\ ParseableSelles # available_selles)
        => /\ Returned
           /\ result = FindMatchingSelles(hidden_teeth, ParseableSelles,
                                          current_model).result

\* C9: the codec does not raise on a name with an empty body; it returns
\* the empty span.
C9_EmptyBodyGivesEmptySpan ==
    (codec_pc # "ready" /\ codec_tokens = <<>>)
        => (codec_pc = "returned" /\ codec_out.teeth = <<>>)

\* C10: for a body of one or more tokens joined by '_', the parsed span is
\* the union of {n} for each token n and of a..b for each token 'a-b'.
C10_CodecExpandsTokens ==
    (codec_pc # "ready" /\ codec_tokens # <<>>)
        => /\ codec_pc = "returned"
           /\ ToSet(codec_out.teeth) = TokensSpan(codec_tokens)

\* 'selle_38_45-48.png' was parsed to {38, 45, 46, 47, 48}
C10_Witness ==
    /\ codec_pc = "returned"
    /\ codec_name = "selle_38_45-48.png"
    /\ codec_tokens = << <<38>>, <<45, 48>> >>
    /\ ToSet(codec_out.teeth) = {38, 45, 46, 47, 48}

\* the rearrangements of a list
Reorderings(seq) ==
    { [i \in 1..Len(seq) |-> seq[f[i]]] :
        f \in { g \in [1..Len(seq) -> 1..Len(seq)] :
                  \A i, j \in 1..Len(seq) : i # j => g[i] # g[j] } }

\* two results with the same span-union meaning: both empty, or covering
\* the same teeth
SameCoverage(r1, r2) == ((r1 = <<>>) <=> (r2 = <<>>)) /\ SpanUnion(r1) = SpanUnion(r2)

\* C11: a second call on the same roster, absent list and listing returns
\* the same list, and a call on the same entries listed in another order
\* returns a list with the same span union (both empty or both covering A).
C11_SameInputsSameCoverage ==
    (Returned /\ listed)
        => /\ FindMatchingSelles(hidden_teeth, available_selles, current_model)
                = [raised |-> FALSE, result |-> result]
           /\ \A p \in Reorderings(available_selles) :
                 SameCoverage(FindMatchingSelles(hidden_teeth, p, current_model).result,
                              result)

\* the catalog entries whose span lies within the absent set
CandidateEntries ==
    { i \in 1..Len(available_selles) : NameSpan(available_selles[i]) \subseteq AbsentSet }

\* some combination of the candidates has a span union equal to the absent set
CoverExists ==
    \E P \in SUBSET CandidateEntries :
        UNION { NameSpan(available_selles[i]) : i \in P } = AbsentSet

\* C12: for a non-empty absent set and a catalog of parseable names in which
\* no single entry and no combination of entries covers the absent set, the
\* call returns the empty list and does not raise.
C12_NoCoverIsEmptyList ==
    (/\ Finished /\ AbsentSet # {}
     /\ ParseableSelles = available_selles
     /\ ~HasExactEntry
     /\ ~CoverExists)
        => (Returned /\ result = <<>>)

\* two parseable candidates were chosen, they leave an absent tooth
\* uncovered, and the empty list was returned
C12_Witness ==
    /\ Returned /\ listed
    /\ ParseableSelles = available_selles
    /\ ~CoverExists
    /\ Len(exact_matches) = 2
    /\ result = <<>>

\* what a call of find_matching_selles works on: its argument, its locals,
\* its position and its return value
call_vars == <<pc, hidden_teeth, available_selles, valid_selles, exact_matches,
               covered_teeth, result, listed, parsed>>

\* C13: no step of a find_matching_selles call changes current_model,
\* selles_props, undo_stack, redo_stack or the tooth-presence store, and from
\* its entry to its return the call leaves its hidden_teeth argument as given.
C13_CallHasNoSideEffect ==
    [][/\ (call_vars' # call_vars) => UNCHANGED <<current_model, manager_vars>>
       /\ ~Idle => hidden_teeth' = hidden_teeth]_vars

\* a greedy selection was returned on a manager that holds element
\* properties, both histories and a tooth marked absent
C13_Witness ==
    /\ Returned
    /\ Len(result) = 2
    /\ selles_props # {}
    /\ undo_stack # <<>>
    /\ redo_stack # <<>>
    /\ ~dents_present["dent_11.png"]

\* the call returned at the exact-match step (no greedy selection was made)
ReturnedExactMatch == Returned /\ listed /\ exact_matches = <<>> /\ result # <<>>

\* C14: a singleton returned by the exact-match step passes the four checks
\* of the validity gate: its span is the absent set, it covers no tooth
\* outside it, more than 2 roster teeth remain present and its base name
\* holds no denylisted substring.
C14_ExactSingletonPassesGate ==
    ReturnedExactMatch
        => /\ Len(result) = 1
           /\ NameSpan(result[1]) = AbsentSet
           /\ ToSet(ExtractTeeth(result[1]).teeth) \ AbsentSet = {}
           /\ PresentCount > 2
           /\ ~HasInvalidPattern(result)

\* positions of the catalog entries that passed the subset filter and are
\* not yet chosen
Unchosen ==
    { i \in CandidateEntries : available_selles[i] \notin ToSet(exact_matches) }

\* number of teeth entry i would add to those the chosen entries cover
NewTeeth(i) == Cardinality(NameSpan(available_selles[i]) \ SpanUnion(exact_matches))

\* C15: the element a greedy iteration appends is a not-yet-chosen candidate
\* that adds the largest number of uncovered teeth, and the first in catalog
\* order of the candidates that add as many.
C15_GreedyPicksFirstBest ==
    [][(pc = "greedy" /\ exact_matches' # exact_matches)
          => \E k \in Unchosen :
                /\ exact_matches' = Append(exact_matches, available_selles[k])
                /\ \A j \in Unchosen : NewTeeth(j) <= NewTeeth(k)
                /\ \A j \in Unchosen : j < k => NewTeeth(j) < NewTeeth(k)]_vars

\* the first selection was made among two candidates adding as many teeth;
\* the chosen one comes first in the catalog
C15_Witness ==
    /\ pc = "greedy"
    /\ Len(exact_matches) = 1
    /\ \E k, j \in CandidateEntries :
          /\ available_selles[k] = exact_matches[1]
          /\ k < j
          /\ Cardinality(NameSpan(available_selles[j]))
                = Cardinality(NameSpan(available_selles[k]))

\* no not-yet-chosen candidate would add a tooth
NoProgress == \A i \in Unchosen : NewTeeth(i) = 0

\* C16: the greedy loop stops exactly when the chosen entries cover the
\* absent set or no not-yet-chosen candidate adds a tooth (otherwise it
\* selects one more entry); when it stopped short of the absent set the
\* selection is dropped and the empty list is returned.
C16_GreedyStopRule ==
    [][/\ pc = "greedy"
          => /\ (pc' = "validate")
                   <=> (SpanUnion(exact_matches) = AbsentSet \/ NoProgress)
             /\ (pc' = "greedy")
                   <=> ~(SpanUnion(exact_matches) = AbsentSet \/ NoProgress)
             /\ (pc' = "greedy") => Len(exact_matches') = Len(exact_matches) + 1
       /\ (pc = "validate" /\ SpanUnion(exact_matches) # AbsentSet)
          => (pc' = "done" /\ result' = <<>>)]_vars

\* the loop stopped on a selection of one entry that leaves an absent tooth
\* uncovered, no other candidate adding any, and the empty list was returned
C16_Witness ==
    /\ Returned /\ listed
    /\ Len(exact_matches) = 1
    /\ Cardinality(CandidateEntries) >= 2
    /\ SpanUnion(exact_matches) # AbsentSet
    /\ NoProgress
    /\ result = <<>>

\* the greedy loop of this call has ended
LoopEnded == listed /\ pc = "validate"

\* the entries of a listing whose span lies within the absent list h cover it
CoverExistsIn(l, h) ==
    UNION { NameSpan(l[i]) : i \in { j \in 1..Len(l) : NameSpan(l[j]) \subseteq ToSet(h) } }
        = ToSet(h)

\* the span union of the selection the greedy loop ends with on listing l
GreedyCoverage(l, h) ==
    SpanUnion(GreedyLoop(ValidSelles(AvailableSelles(l), HiddenSet(h)), <<>>, {}, h))

\* C17 as stated: for a roster of the manager, the current one or another,
\* there is an input (absent list, catalog of parseable names) on which a
\* combination of the filtered candidates covers exactly the absent set and
\* yet the greedy loop ends without having covered it.
C17_SomeInputMissesACover ==
    \E m \in ModelNames \cup {current_model} : \E h \in HiddenLists(m) : \E l \in Listings(m) :
        /\ h # <<>>
        /\ ~FilterRaises(AvailableSelles(l))
        /\ CoverExistsIn(l, h)
        /\ GreedyCoverage(l, h) # ToSet(h)

\* C17 amended: whenever a combination of the filtered candidates covers
\* the absent set, the greedy loop ends with a selection covering exactly the
\* absent set, and the call returns that selection unless the
\* minimum-support rule or the forbidden-pattern rule rejects it.
C17_GreedyCoversWhenCoverExists ==
    /\ (LoopEnded /\ CoverExists)
          => /\ SpanUnion(exact_matches) = AbsentSet
             /\ covered_teeth = AbsentSet
    /\ (Returned /\ listed /\ AbsentSet # {} /\ ~HasExactEntry /\ CoverExists)
          => /\ SpanUnion(exact_matches) = AbsentSet
             /\ result = IF PresentCount <= 2 \/ HasInvalidPattern(exact_matches)
                          THEN <<>> ELSE exact_matches

\* a cover of three entries was built although the first choice overlaps
\* both others
C17_Witness ==
    /\ LoopEnded
    /\ CoverExists
    /\ Len(exact_matches) = 3
    /\ SpanUnion(exact_matches) = AbsentSet

\* sets of candidate positions whose spans together are exactly the absent set
Covers ==
    { P \in SUBSET CandidateEntries :
        UNION { NameSpan(available_selles[i]) : i \in P } = AbsentSet }

\* C18: the returned cover need not be the smallest: with teeth 11 to 14
\* absent and the folder listed as 12-13, 11-12, 13-14, the call returns all
\* three entries, while the last two alone cover the absent set.
C18_ThreeReturnedWhereTwoCover ==
    (/\ Returned /\ listed
     /\ hidden_teeth = <<11, 12, 13, 14>>
     /\ available_selles = <<"selle_12-13.png", "selle_11-12.png", "selle_13-14.png">>)
        => /\ result = <<"selle_12-13.png", "selle_11-12.png", "selle_13-14.png">>
           /\ SpanUnion(result) = AbsentSet
           /\ \E P \in Covers : Cardinality(P) < Len(result)

\* that call has returned: three entries, where two of the catalog cover
\* the four absent teeth
C18_Witness ==
    /\ Returned /\ listed
    /\ hidden_teeth = <<11, 12, 13, 14>>
    /\ available_selles = <<"selle_12-13.png", "selle_11-12.png", "selle_13-14.png">>
    /\ Len(result) = 3
    /\ \E P \in Covers : Cardinality(P) = 2

\* positions of the catalog entries whose span is exactly the absent set
ExactEntries ==
    { i \in 1..Len(available_selles) : NameSpan(available_selles[i]) = AbsentSet }

\* C19: when several catalog entries span exactly the absent set, the
\* singleton returned holds the one that comes first in the listing.
C19_FirstExactMatchWins ==
    (Returned /\ listed /\ AbsentSet # {} /\ ExactEntries # {})
        => \E k \in ExactEntries :
              /\ \A j \in ExactEntries : k <= j
              /\ result = <<available_selles[k]>>

\* two names of the catalog denote the absent set and the one listed first
\* was returned
C19_Witness ==
    /\ Returned /\ listed
    /\ Cardinality(ExactEntries) = 2
    /\ \E k, j \in ExactEntries : k < j /\ result = <<available_selles[k]>>

\* smaller of two numbers
Min(a, b) == IF a <= b THEN a ELSE b

\* C20: a call on a catalog of parseable names returns; the greedy loop
\* makes at most min(|A|, number of filtered candidates) selections, and each
\* selection strictly enlarges the covered set.
C20_CallTerminates ==
    /\ ((~Idle /\ listed /\ ParseableSelles = available_selles) ~> Returned)
    /\ [](listed => Len(exact_matches)
                       <= Min(Cardinality(AbsentSet), Cardinality(CandidateEntries)))
    /\ [][(pc = "greedy" /\ exact_matches' # exact_matches)
             => /\ covered_teeth \subseteq covered_teeth' /\ covered_teeth # covered_teeth'
                /\ SpanUnion(exact_matches) # SpanUnion(exact_matches')]_vars

\* a call has returned after three selections on three candidates, the
\* absent set having four teeth
C20_Witness ==
    /\ Returned /\ listed
    /\ Len(exact_matches) = 3
    /\ Cardinality(CandidateEntries) = 3
    /\ Cardinality(AbsentSet) = 4

\* what the call in progress returns when it runs alone: on the roster in
\* force at its entry, the folder of that roster and its absent list
AloneResult(model, hidden) == FindMatchingSelles(hidden, FolderContents(model), model)

\* C21: a call interleaved with set_current_model or with a second call on
\* the same manager ends as it does when it runs alone on its own inputs;
\* this holds of the call and of the second call.
C21_InterleavedCallAsAlone ==
    /\ (pc \in {"done", "raised"})
          => AloneResult(entry_model, hidden_teeth)
                = [raised |-> pc = "raised", result |-> result]
    /\ (other_call.pc = "done")
          => AloneResult(other_call.model, other_call.hidden_teeth)
                = [raised |-> other_call.raised, result |-> other_call.result]

\* the candidates in catalog order
CandidateNames ==
    LET Within(f) == NameSpan(f) \subseteq AbsentSet IN SelectSeq(available_selles, Within)

\* C22: for a non-empty absent set, a catalog of parseable names none of
\* which spans exactly the absent set, more than 2 roster teeth present and
\* no candidate name holding a denylisted substring, the returned list is
\* non-empty if and only if the spans of all candidates together are exactly
\* the absent set.
C22_NonEmptyIffCandidatesCover ==
    (/\ Returned /\ listed /\ AbsentSet # {}
     /\ ParseableSelles = available_selles
     /\ ~HasExactEntry
     /\ PresentCount > 2
     /\ ~HasInvalidPattern(CandidateNames))
        => ((result # <<>>) <=> (SpanUnion(CandidateNames) = AbsentSet))

\* under those conditions a list of two entries was returned from a catalog
\* that also holds a file reaching beyond the absent set
C22_Witness ==
    /\ Returned /\ listed
    /\ ParseableSelles = available_selles
    /\ ~HasExactEntry
    /\ PresentCount > 2
    /\ ~HasInvalidPattern(CandidateNames)
    /\ Len(CandidateNames) < Len(available_selles)
    /\ SpanUnion(CandidateNames) = AbsentSet
    /\ Len(result) = 2

\* teeth the first n elements of a list of names cover
SpanOfPrefix(names, n) == UNION { NameSpan(names[j]) : j \in 1..n }

\* C23: in a returned list the names are pairwise distinct and each element
\* covers an absent tooth that the elements before it do not cover; the list
\* has at most as many elements as there are absent teeth.
C23_EachElementAddsATooth ==
    Returned
        => /\ \A i, j \in 1..Len(result) : i # j => result[i] # result[j]
           /\ \A i \in 1..Len(result) :
                 (NameSpan(result[i]) \cap AbsentSet) \ SpanOfPrefix(result, i - 1) # {}
           /\ Len(result) <= Cardinality(AbsentSet)

\* a list of three elements, each adding a tooth, was returned for four
\* absent teeth
C23_Witness ==
    /\ Returned /\ listed
    /\ Len(result) = 3
    /\ Cardinality(AbsentSet) = 4

\* the list read from its last element to its first
Reverse(seq) == [i \in 1..Len(seq) |-> seq[Len(seq) + 1 - i]]

\* lists with the same values as a non-empty list h: h reversed, h turned by
\* one place, h with its first or its last tooth repeated, h written twice
SameValueLists(h) ==
    {Reverse(h), Tail(h) \o <<Head(h)>>, h \o <<Head(h)>>, <<h[Len(h)]>> \o h, h \o h}

\* C24: a call given the absent teeth in another order, or with teeth
\* repeated, ends as the call on the list without repetition does: same
\* returned list, or an exception in both.
C24_ResultDependsOnValueSet ==
    (Finished /\ hidden_teeth # <<>>)
        => \A v \in SameValueLists(hidden_teeth) :
              FindMatchingSelles(v, available_selles, current_model)
                 = [raised |-> pc = "raised", result |-> result]

\* a greedy cover of two entries was returned for three absent teeth: on the
\* list written twice the loop guard compares 3 covered teeth with a length
\* of 6
C24_Witness ==
    /\ Returned /\ listed
    /\ Len(hidden_teeth) = 3
    /\ Len(result) = 2
    /\ Len(hidden_teeth \o hidden_teeth) > Cardinality(AbsentSet)
    /\ FindMatchingSelles(hidden_teeth \o hidden_teeth, available_selles,
                          current_model).result = result

\* the names of the catalog that are a reversed range: the codec accepts
\* them and they denote no tooth
IsReversedRange(f) == ExtractTeeth(f).ok /\ NameSpan(f) = {}

\* the catalog without its reversed ranges
WithoutReversedRanges ==
    LET Keep(f) == ~IsReversedRange(f) IN SelectSeq(available_selles, Keep)

\* C25: a catalog entry that is a reversed range passes the subset filter
\* whatever the absent set, is in no returned list, and the call ends as it
\* does on the catalog without that entry.
C25_ReversedRangeIsInert ==
    /\ (listed /\ pc \in {"exact", "greedy", "validate", "done"})
          => \A i \in 1..Len(available_selles) :
                IsReversedRange(available_selles[i])
                   => available_selles[i] \in ToSet(valid_selles)
    /\ Returned
          => \A i \in 1..Len(result) : ~IsReversedRange(result[i])
    /\ (Finished /\ hidden_teeth # <<>>)
          => FindMatchingSelles(hidden_teeth, WithoutReversedRanges, current_model)
                = [raised |-> pc = "raised", result |-> result]

\* a greedy cover was returned from a catalog whose first entry is a
\* reversed range
C25_Witness ==
    /\ Returned /\ listed
    /\ Len(available_selles) = 3
    /\ IsReversedRange(available_selles[1])
    /\ Len(result) = 2

\* C26: for every non-empty list of missing teeth of a roster, the name the
\* export builds from it (maximal runs written 'a-b', isolated numbers 'n',
\* joined by '_') is parsed by the codec without an error, and the teeth the
\* codec returns are exactly the missing teeth
C26_ExportNameRoundTrip ==
    (codec_pc \in {"returned", "raised"} /\ missing_teeth # <<>>)
        => /\ codec_pc = "returned"
           /\ codec_out.ok
           /\ ToSet(codec_out.teeth) = ToSet(missing_teeth)

\* a run, an isolated tooth and a run in the other quadrant went through the
\* export and the codec
C26_Witness ==
    /\ codec_pc = "returned"
    /\ missing_teeth = <<11, 12, 13, 15, 21, 22>>
    /\ codec_name = "selle_11-13_15_21-22.png"

\* C27: an undo() that returns True followed immediately by redo() leaves
\* selles_props, undo_stack and redo_stack equal to what they were just
\* before the undo()
C27_UndoThenRedoRestores ==
    LET u == UndoResult(selles_props, undo_stack, redo_stack)
        r == RedoResult(u.selles_props, u.undo_stack, u.redo_stack)
    IN  u.returned => /\ r.selles_props = selles_props
                      /\ r.undo_stack = undo_stack
                      /\ r.redo_stack = redo_stack

\* C28: without set_current_model, undo_stack and redo_stack never hold more
\* than 50 snapshots together; undo() on a stack of one snapshot returns
\* False and changes nothing; what save_state() leaves has an empty
\* redo_stack, on which redo() returns False; and a non-empty undo_stack is
\* never emptied by a step
C28_HistoryInvariants ==
    /\ [](/\ Len(undo_stack) + Len(redo_stack) <= maxlen
          /\ Len(undo_stack) = 1 =>
                UndoResult(selles_props, undo_stack, redo_stack)
                    = [returned |-> FALSE, selles_props |-> selles_props,
                       undo_stack |-> undo_stack, redo_stack |-> redo_stack]
          /\ LET s == SaveStateResult(selles_props, undo_stack, redo_stack)
             IN  /\ s.redo_stack = <<>>
                 /\ ~RedoResult(s.selles_props, s.undo_stack, s.redo_stack).returned)
    /\ [][undo_stack # <<>> => undo_stack' # <<>>]_vars
    /\ [][SaveStateAnyDepth => redo_stack' = <<>>]_vars

\* the two deques hold 50 snapshots together, some of them undone
C28_Witness ==
    /\ Len(undo_stack) + Len(redo_stack) = maxlen
    /\ Len(undo_stack) = 1
    /\ selles_props # {}

\* C29: after update_selle_position(f, x, y), selles_props[f] exists and has
\* the position (x, y), whether or not f had an entry before
C29_PositionSetOnEveryUpdate ==
    [][\A f \in PlacedSelles, p \in Positions :
          UpdateSellePosition(f, p[1], p[2])
              => \E e \in selles_props' : e.image = f /\ e.x = p[1] /\ e.y = p[2]]_vars

====
